---- MODULE Spec2Model ----
(***************************************************************************)
(* The image pipeline of random-album-art-gen: the two generator scripts   *)
(* (src/script.js, fixed-radius blur; src/unnamed/part_000, variable blur  *)
(* and noise) and the pixel functions they share.                          *)
(*                                                                         *)
(* An ImageData is a record [width, height, data] whose data is a function *)
(* on 0 .. width*height*4-1, as in the canvas API.  Channel values are     *)
(* integers; every real number the code computes is carried as an exact    *)
(* fraction (numerator, denominator) until the typed array it is stored    *)
(* into converts it.                                                       *)
(***************************************************************************)
EXTENDS Integers, Sequences, FiniteSets, TLC

VARIABLES
    pc,         \* position of the function or handler being executed
    imageData,  \* the ImageData argument of the function being executed
    args,       \* its scalar arguments, a record
    tempData,   \* boxBlurImageData / variableBoxBlurImageData: tempData
    data,       \* floydSteinbergDitherImageData: the Float32Array working copy
    pos,        \* floydSteinbergDitherImageData: loop position
    output,     \* the ImageData returned, or NoImage before the return
    config,            \* the constants at the head of the script
    hiddenCanvas,      \* content of hiddenCanvas
    tempCanvas,        \* content of tempCanvas
    finalCanvas,       \* content of finalCanvas
    firstEllipseProps, \* part_000: properties of the first ellipse drawn
    stages,            \* the stages of the last generate run, with their results
    downloaded,        \* the image handed to the last download
    randoms            \* the random draws of the last generate run

fnVars == <<pc, imageData, args, tempData, data, pos, output>>
pageVars == <<config, hiddenCanvas, tempCanvas, finalCanvas,
              firstEllipseProps, stages, downloaded, randoms>>
vars == <<pc, imageData, args, tempData, data, pos, output,
          config, hiddenCanvas, tempCanvas, finalCanvas,
          firstEllipseProps, stages, downloaded, randoms>>

(***************************************************************************)
(* Bounds of the model.                                                    *)
(***************************************************************************)
MaxWidth == 3
MaxHeight == 3
MaxRadius == 2
NoiseDen == 2
MaxFinal == 2

NoImage == [width |-> 0, height |-> 0, data |-> <<>>]
None == <<>>

\* The page while a pixel function is run on its own.
NoPage ==
    /\ config = None
    /\ hiddenCanvas = NoImage
    /\ tempCanvas = NoImage
    /\ finalCanvas = NoImage
    /\ firstEllipseProps = None
    /\ stages = <<>>
    /\ downloaded = NoImage
    /\ randoms = None

Min(a, b) == IF a < b THEN a ELSE b
Max(a, b) == IF a > b THEN a ELSE b

(***************************************************************************)
(* Input buffers.  A pixel is <<R, G, B, A>>; the buffers drawn are the    *)
(* one- and two-colour images over four colours: two of the palette, the   *)
(* mid grey the contrast transform pivots on, and a translucent one.       *)
(***************************************************************************)
PaletteLight == <<222, 228, 231, 255>>
PaletteDark == <<20, 21, 21, 255>>
MidGrey == <<128, 128, 128, 255>>
Translucent == <<255, 133, 0, 128>>
Colours == {PaletteLight, PaletteDark, MidGrey, Translucent}

Patterns(n) ==
    {0 .. (k - 1) : k \in 0 .. n}
        \cup {{k} : k \in 0 .. (n - 1)}
        \cup {{k \in 0 .. (n - 1) : k % 2 = 0}}

MakeImage(w, h, pixels) ==
    [width |-> w, height |-> h,
     data |-> [i \in 0 .. (w * h * 4 - 1) |-> pixels[i \div 4][(i % 4) + 1]]]

Images(w, h) ==
    {MakeImage(w, h, [i \in 0 .. (w * h - 1) |-> IF i \in S THEN a ELSE b]) :
        S \in Patterns(w * h), a \in Colours, b \in Colours}

Pixels(img) == 0 .. (img.width * img.height - 1)
Samples(img) == 0 .. (img.width * img.height * 4 - 1)

(***************************************************************************)
(* Storing the real number num/den (den > 0) into a Uint8ClampedArray:     *)
(* clamp to [0, 255], round to the nearest integer, ties to even.          *)
(***************************************************************************)
ToUint8Wrapped(num, den) == (num \div den) % 256

ToUint8Clamped(num, den) ==
    IF num <= 0 THEN 0
    ELSE IF num >= 255 * den THEN 255
    ELSE LET q == num \div den
             r == num % den
         IN  IF 2 * r < den THEN q
             ELSE IF 2 * r > den THEN q + 1
             ELSE IF q % 2 = 0 THEN q ELSE q + 1

(***************************************************************************)
(* boxBlurImageData: the inner loop over dx (dy) of one output sample.     *)
(* WindowSum and WindowCount run the loop from offset d to radius; a       *)
(* sample outside the buffer adds nothing to either.  The pass runs along  *)
(* a row (column) of `len` samples, the n-th of them at index              *)
(* first + n * stride of `samples`; `line` is the coordinate of the output *)
(* sample in it.                                                           *)
(***************************************************************************)
RECURSIVE WindowSumReplicated(_, _, _, _, _, _, _)
WindowSumReplicated(samples, first, stride, line, len, d, radius) ==
    IF d > radius THEN 0
    ELSE samples[first + Max(0, Min(len - 1, line + d)) * stride]
             + WindowSumReplicated(samples, first, stride, line, len, d + 1,
                                   radius)

RECURSIVE WindowSum(_, _, _, _, _, _, _)
WindowSum(samples, first, stride, line, len, d, radius) ==
    IF d > radius THEN 0
    ELSE (IF line + d >= 0 /\ line + d < len
          THEN samples[first + (line + d) * stride] ELSE 0)
             + WindowSum(samples, first, stride, line, len, d + 1, radius)

\* A count that leaves out the pixel the window is centred on.
RECURSIVE WindowCountOthers(_, _, _, _)
WindowCountOthers(line, len, d, radius) ==
    IF d > radius THEN 0
    ELSE (IF d # 0 /\ line + d >= 0 /\ line + d < len THEN 1 ELSE 0)
             + WindowCountOthers(line, len, d + 1, radius)

RECURSIVE WindowCountPadded(_, _, _, _)
WindowCountPadded(line, len, d, radius) ==
    IF d > radius THEN 0
    ELSE 1 + WindowCountPadded(line, len, d + 1, radius)

RECURSIVE WindowCount(_, _, _, _)
WindowCount(line, len, d, radius) ==
    IF d > radius THEN 0
    ELSE (IF line + d >= 0 /\ line + d < len THEN 1 ELSE 0)
             + WindowCount(line, len, d + 1, radius)

\* r / count stored into a Uint8ClampedArray; 0/0 is NaN, stored as 0.
StoreAverage(sum, count) ==
    IF count = 0 THEN 0 ELSE ToUint8Clamped(sum, count)

\* A horizontal pass over the colour channels only, which leaves the alpha
\* samples of tempData at the 0 a new Uint8ClampedArray holds.
HorizontalPassColourOnly(img, rad) ==
    [i \in Samples(img) |->
        LET c == i % 4
            x == (i \div 4) % img.width
            y == (i \div 4) \div img.width
            r == rad[i \div 4]
        IN  IF c = 3 THEN 0
            ELSE StoreAverage(WindowSum(img.data, y * img.width * 4 + c, 4,
                                        x, img.width, -r, r),
                              WindowCount(x, img.width, -r, r))]

\* The horizontal pass: tempData from data.  rad[y * width + x] is the
\* window half-width used for output pixel (x, y); the samples of channel c
\* of row y are at (y * width + nx) * 4 + c.
HorizontalPass(img, rad) ==
    [i \in Samples(img) |->
        LET c == i % 4
            x == (i \div 4) % img.width
            y == (i \div 4) \div img.width
            r == rad[i \div 4]
        IN  StoreAverage(WindowSum(img.data, y * img.width * 4 + c, 4, x,
                                   img.width, -r, r),
                         WindowCount(x, img.width, -r, r))]

\* A vertical pass taking the window half-width of (x, y) from the map entry
\* of the pixel above it, a source pixel of the window.
VerticalPassFromSource(img, temp, rad) ==
    [i \in Samples(img) |->
        LET c == i % 4
            x == (i \div 4) % img.width
            y == (i \div 4) \div img.width
            r == rad[Max(0, y - 1) * img.width + x]
        IN  StoreAverage(WindowSum(temp, x * 4 + c, img.width * 4, y,
                                   img.height, -r, r),
                         WindowCount(y, img.height, -r, r))]

\* The vertical pass: outputData from tempData; the samples of channel c of
\* column x are at (ny * width + x) * 4 + c.
VerticalPass(img, temp, rad) ==
    [i \in Samples(img) |->
        LET c == i % 4
            x == (i \div 4) % img.width
            y == (i \div 4) \div img.width
            r == rad[i \div 4]
        IN  StoreAverage(WindowSum(temp, x * 4 + c, img.width * 4, y,
                                   img.height, -r, r),
                         WindowCount(y, img.height, -r, r))]

\* The fixed-radius blur uses `radius` at every pixel.
FixedRadius(img, radius) == [p \in Pixels(img) |-> radius]

boxBlurImageData(img, radius) ==
    [width |-> img.width, height |-> img.height,
     data |-> VerticalPass(img, HorizontalPass(img, FixedRadius(img, radius)),
                           FixedRadius(img, radius))]

(***************************************************************************)
(* SpecBlur: boxBlurImageData(imageData, radius) on every drawn buffer and *)
(* radius, one step per pass.                                              *)
(***************************************************************************)
BlurInit ==
    /\ pc = "boxBlur"
    /\ \E w \in 1 .. MaxWidth, h \in 1 .. MaxHeight : imageData \in Images(w, h)
    /\ args \in {[radius |-> r] : r \in 0 .. MaxRadius}
    /\ tempData = None
    /\ data = None
    /\ pos = 0
    /\ output = NoImage
    /\ NoPage

BoxBlurHorizontal ==
    /\ pc = "boxBlur"
    /\ tempData' = HorizontalPass(imageData, FixedRadius(imageData, args.radius))
    /\ pc' = "boxBlurVertical"
    /\ UNCHANGED <<imageData, args, data, pos, output>>
    /\ UNCHANGED pageVars

BoxBlurVertical ==
    /\ pc = "boxBlurVertical"
    /\ output' = [width |-> imageData.width, height |-> imageData.height,
                  data |-> VerticalPass(imageData, tempData,
                                        FixedRadius(imageData, args.radius))]
    /\ pc' = "boxBlurReturned"
    /\ UNCHANGED <<imageData, args, tempData, data, pos>>
    /\ UNCHANGED pageVars

BlurNext == BoxBlurHorizontal \/ BoxBlurVertical

SpecBlur == BlurInit /\ [][BlurNext]_vars

(***************************************************************************)
(* floydSteinbergDitherImageData.                                          *)
(*                                                                         *)
(* The Float32Array working copy holds, per sample, either NaN or a number *)
(* carried in fixed point: the number x is the integer x * Scale(shades),  *)
(* with Scale(shades) = Frac * (shades - 1).  At that scale the step       *)
(* 4000 / (shades - 1) is the integer MaxLevel * Frac, and a share         *)
(* error * w / 16 is an integer as long as no sample has received error    *)
(* through more than four successive diffusions, which is the case in      *)
(* every buffer of DitherSizes; there the arithmetic is exact.             *)
(***************************************************************************)
MaxLevel == 4000
Frac == 16 * 16 * 16 * 16

NaN == [nan |-> TRUE, v |-> 0]
Num(v) == [nan |-> FALSE, v |-> v]

Scale(shades) == IF shades >= 2 THEN Frac * (shades - 1) ELSE Frac
StepScaled == MaxLevel * Frac

\* Math.round(num / den) = floor(num/den + 1/2), for den > 0.
RoundHalfUp(num, den) ==
    IF (num % den) >= den - (num % den)
    THEN (num \div den) + 1
    ELSE num \div den

\* newVal = Math.round(oldVal / step) * step.  With shades = 1 the step is
\* Infinity: oldVal / step is 0 and 0 * Infinity is NaN.
QuantizeTo255(oldVal, shades) ==
    IF oldVal.nan \/ shades = 1 THEN NaN
    ELSE Num(RoundHalfUp(oldVal.v, 255 * Frac) * 255 * Frac)

Quantize(oldVal, shades) ==
    IF oldVal.nan \/ shades = 1 THEN NaN
    ELSE Num(RoundHalfUp(oldVal.v, StepScaled) * StepScaled)

\* error = oldVal - newVal
Error(oldVal, newVal) ==
    IF oldVal.nan \/ newVal.nan THEN NaN ELSE Num(oldVal.v - newVal.v)

\* data[target] += error * (weight / 16)
AddShare(target, error, weight) ==
    IF target.nan \/ error.nan THEN NaN
    ELSE Num(target.v + ((error.v * weight) \div 16))

\* The neighbours of (x, y) that receive a share, as offsets in pixels from
\* (x, y), with the weight in sixteenths.
DiffusionTargetsLeft(x, y, width, height) ==
    (IF x + 1 < width THEN {[offset |-> 1, weight |-> 7]} ELSE {})
        \cup (IF x - 1 >= 0 /\ y + 1 < height
              THEN {[offset |-> -1, weight |-> 3]} ELSE {})
        \cup (IF y + 1 < height THEN {[offset |-> width, weight |-> 5]} ELSE {})
        \cup (IF x + 1 < width /\ y + 1 < height
              THEN {[offset |-> 1 + width, weight |-> 1]} ELSE {})

DiffusionTargetsLight(x, y, width, height) ==
    (IF x + 1 < width THEN {[offset |-> 1, weight |-> 7]} ELSE {})
        \cup (IF x - 1 >= 0 /\ y + 1 < height
              THEN {[offset |-> -1 + width, weight |-> 3]} ELSE {})
        \cup (IF y + 1 < height THEN {[offset |-> width, weight |-> 3]} ELSE {})
        \cup (IF x + 1 < width /\ y + 1 < height
              THEN {[offset |-> 1 + width, weight |-> 1]} ELSE {})

DiffusionTargets(x, y, width, height) ==
    (IF x + 1 < width THEN {[offset |-> 1, weight |-> 7]} ELSE {})
        \cup (IF x - 1 >= 0 /\ y + 1 < height
              THEN {[offset |-> -1 + width, weight |-> 3]} ELSE {})
        \cup (IF y + 1 < height THEN {[offset |-> width, weight |-> 5]} ELSE {})
        \cup (IF x + 1 < width /\ y + 1 < height
              THEN {[offset |-> 1 + width, weight |-> 1]} ELSE {})

\* One iteration of the loop over c: channel c of pixel (x, y) is quantized
\* and its error is added to the neighbours inside the buffer.
DitherChannel(d, width, height, x, y, c, shades) ==
    LET index == (y * width + x) * 4
        oldVal == d[index + c]
        newVal == Quantize(oldVal, shades)
        error == Error(oldVal, newVal)
        targets == DiffusionTargets(x, y, width, height)
    IN  [j \in DOMAIN d |->
            IF j = index + c THEN newVal
            ELSE IF \E t \in targets : j = index + 4 * t.offset + c
            THEN AddShare(d[j], error,
                          (CHOOSE t \in targets :
                               j = index + 4 * t.offset + c).weight)
            ELSE d[j]]

\* output[i] = Math.max(0, Math.min(255, data[i])), stored into a
\* Uint8ClampedArray; Math.min and Math.max return NaN for NaN, stored as 0.
ClampToOutputWrapped(val, shades) ==
    IF val.nan THEN 0 ELSE ToUint8Wrapped(val.v, Scale(shades))

ClampToOutput(val, shades) ==
    IF val.nan THEN 0 ELSE ToUint8Clamped(val.v, Scale(shades))

\* const data = new Float32Array(imageData.data)
WorkingCopy(img, shades) ==
    [i \in Samples(img) |-> Num(img.data[i] * Scale(shades))]

\* The loops over y, x and c from iteration n on.
RECURSIVE DitherLoop(_, _, _, _, _)
DitherLoop(d, width, height, n, shades) ==
    IF n >= 3 * width * height THEN d
    ELSE DitherLoop(DitherChannel(d, width, height, (n \div 3) % width,
                                  (n \div 3) \div width, n % 3, shades),
                    width, height, n + 1, shades)

floydSteinbergDitherImageData(img, shades) ==
    LET d == DitherLoop(WorkingCopy(img, shades), img.width, img.height, 0,
                        shades)
    IN  [width |-> img.width, height |-> img.height,
         data |-> [i \in Samples(img) |-> ClampToOutput(d[i], shades)]]

\* The buffer sizes of the dither runs and the shade counts: 1 (the step is
\* Infinity), 2, 17 (step 250) and 30 (ditherShades of src/script.js).
DitherSizes == {<<1, 1>>, <<2, 1>>, <<1, 2>>, <<2, 2>>, <<3, 1>>, <<3, 2>>}
DitherShadeCounts == {1, 2, 17, 30}

DitherInit ==
    /\ pc = "dither"
    /\ \E size \in DitherSizes : imageData \in Images(size[1], size[2])
    /\ args \in {[shades |-> s] : s \in DitherShadeCounts}
    /\ tempData = None
    /\ data = None
    /\ pos = 0
    /\ output = NoImage
    /\ NoPage

\* const data = new Float32Array(imageData.data); const step = ...
DitherEntry ==
    /\ pc = "dither"
    /\ data' = WorkingCopy(imageData, args.shades)
    /\ pos' = 0
    /\ pc' = "ditherLoop"
    /\ UNCHANGED <<imageData, args, tempData, output>>
    /\ UNCHANGED pageVars

\* pos counts the iterations of the three nested loops done so far: pixel
\* pos \div 3 in row-major order, channel pos % 3.
DitherStep ==
    /\ pc = "ditherLoop"
    /\ pos < 3 * imageData.width * imageData.height
    /\ data' = DitherChannel(data, imageData.width, imageData.height,
                             (pos \div 3) % imageData.width,
                             (pos \div 3) \div imageData.width,
                             pos % 3, args.shades)
    /\ pos' = pos + 1
    /\ UNCHANGED <<pc, imageData, args, tempData, output>>
    /\ UNCHANGED pageVars

DitherReturn ==
    /\ pc = "ditherLoop"
    /\ pos = 3 * imageData.width * imageData.height
    /\ output' = [width |-> imageData.width, height |-> imageData.height,
                  data |-> [i \in Samples(imageData) |->
                               ClampToOutput(data[i], args.shades)]]
    /\ pc' = "ditherReturned"
    /\ UNCHANGED <<imageData, args, tempData, data, pos>>
    /\ UNCHANGED pageVars

DitherNext == DitherEntry \/ DitherStep \/ DitherReturn

SpecDither == DitherInit /\ [][DitherNext]_vars

\* The fixed-point working copy loses nothing: every share is a whole number.
DitherSharesExact ==
    (pc = "ditherLoop" /\ pos < 3 * imageData.width * imageData.height) =>
        LET oldVal == data[(pos \div 3) * 4 + (pos % 3)]
            error == Error(oldVal, Quantize(oldVal, args.shades))
        IN  \/ error.nan
            \/ error.v % 16 = 0
            \/ DiffusionTargets((pos \div 3) % imageData.width,
                                (pos \div 3) \div imageData.width,
                                imageData.width, imageData.height) = {}

(***************************************************************************)
(* enhanceContrast.  The factor is carried in tenths: contrastFactor 1.4   *)
(* is 14.  newVal = factor * (old - 128) + 128 is then the fraction        *)
(* (tenths * (old - 128) + 1280) / 10; Math.max(0, Math.min(255, newVal))  *)
(* clamps it and the Uint8ClampedArray it is stored into rounds it.        *)
(***************************************************************************)
ContrastValueUnpivoted(old, tenths) ==
    ToUint8Clamped(tenths * old, 10)

ContrastValueWrapped(old, tenths) ==
    ToUint8Wrapped(tenths * (old - 128) + 1280, 10)

ContrastValue(old, tenths) ==
    ToUint8Clamped(tenths * (old - 128) + 1280, 10)

\* The loops over i and c < 3: alpha (c = 3) is not written.
enhanceContrast(img, tenths) ==
    [img EXCEPT !.data =
        [i \in Samples(img) |->
            IF i % 4 < 3 THEN ContrastValue(img.data[i], tenths)
            ELSE img.data[i]]]

\* Factors, in tenths: negative, 0, 0.5, 1.0, 1.1 and 1.4 (the contrastFactor
\* of the two scripts), 2.0 and 100.
ContrastFactors == {-10, 0, 5, 10, 11, 14, 20, 1000}

ContrastInit ==
    /\ pc = "enhanceContrast"
    /\ \E w \in 1 .. MaxWidth, h \in 1 .. MaxHeight : imageData \in Images(w, h)
    /\ args \in {[factor |-> f] : f \in ContrastFactors}
    /\ tempData = None
    /\ data = None
    /\ pos = 0
    /\ output = NoImage
    /\ NoPage

\* The buffer is changed in place and returned: imageData and the value
\* returned are the same object.
EnhanceContrast ==
    /\ pc = "enhanceContrast"
    /\ imageData' = enhanceContrast(imageData, args.factor)
    /\ output' = imageData'
    /\ pc' = "enhanceContrastReturned"
    /\ UNCHANGED <<args, tempData, data, pos>>
    /\ UNCHANGED pageVars

ContrastNext == EnhanceContrast

SpecContrast == ContrastInit /\ [][ContrastNext]_vars

(***************************************************************************)
(* generateBlurMap.  The noise at a pixel is a sum of three products of    *)
(* sines and cosines, each in [-1, 1]; the sum is 3 (or -3) only where all *)
(* three are 1 (-1) at once, which no pair of integer coordinates gives.   *)
(* Math.sin and Math.cos are not computed here: the noise at a pixel is    *)
(* any multiple of 1/NoiseDen strictly between -3 and 3, carried as its    *)
(* numerator.                                                              *)
(***************************************************************************)
NoiseValues == (1 - 3 * NoiseDen) .. (3 * NoiseDen - 1)

NoiseFields(n) ==
    {[p \in 0 .. (n - 1) |-> IF p \in S THEN a ELSE -a] :
        S \in Patterns(n), a \in NoiseValues}

\* normalizedNoise = (noise + 3) / 6;
\* radius = Math.floor(minRadius + normalizedNoise * (maxRadius - minRadius))
MapRadiusFromZero(noise, minRadius, maxRadius) ==
    ((noise + 3 * NoiseDen) * maxRadius) \div (6 * NoiseDen)

MapRadiusRounded(noise, minRadius, maxRadius) ==
    minRadius
        + (2 * (noise + 3 * NoiseDen) * (maxRadius - minRadius) + 6 * NoiseDen)
              \div (12 * NoiseDen)

MapRadius(noise, minRadius, maxRadius) ==
    minRadius
        + ((noise + 3 * NoiseDen) * (maxRadius - minRadius)) \div (6 * NoiseDen)

\* noiseAt[y * width + x] is the noise the code computes for pixel (x, y).
generateBlurMap(width, height, minRadius, maxRadius, noiseAt) ==
    [p \in 0 .. (width * height - 1) |->
        MapRadius(noiseAt[p], minRadius, maxRadius)]

BlurMapInit ==
    /\ pc = "generateBlurMap"
    /\ imageData = NoImage
    /\ \E w \in 1 .. MaxWidth, h \in 1 .. MaxHeight,
          lo \in 0 .. MaxRadius, hi \in 0 .. MaxRadius :
           /\ lo <= hi
           /\ args \in {[width |-> w, height |-> h, minRadius |-> lo,
                         maxRadius |-> hi, noise |-> f] :
                            f \in NoiseFields(w * h)}
    /\ tempData = None
    /\ data = None
    /\ pos = 0
    /\ output = None
    /\ NoPage

GenerateBlurMap ==
    /\ pc = "generateBlurMap"
    /\ output' = generateBlurMap(args.width, args.height, args.minRadius,
                                 args.maxRadius, args.noise)
    /\ pc' = "generateBlurMapReturned"
    /\ UNCHANGED <<imageData, args, tempData, data, pos>>
    /\ UNCHANGED pageVars

BlurMapNext == GenerateBlurMap

SpecBlurMap == BlurMapInit /\ [][BlurMapNext]_vars

(***************************************************************************)
(* SpecVariableBlur: variableBoxBlurImageData(imageData, minRadius,        *)
(* maxRadius), one step per pass.  args.noise is the noise generateBlurMap *)
(* computes for the pixels of the buffer; BlurMap is the local blurMap.    *)
(***************************************************************************)
BlurBuffers(w, h) ==
    {MakeImage(w, h, [i \in 0 .. (w * h - 1) |-> IF i \in S THEN a ELSE b]) :
        S \in {{}, {0}, {k \in 0 .. (w * h - 1) : k % 2 = 0}},
        a \in {PaletteLight, Translucent}, b \in {PaletteDark, MidGrey}}

BlurNoise(n) ==
    {f \in NoiseFields(n) :
        /\ f[0] \in {1 - 3 * NoiseDen, 3 * NoiseDen - 1}
        /\ \A p \in 0 .. (n - 1) : p % 2 = 0 => f[p] = f[0]
        /\ \A p \in 0 .. (n - 1) : p % 2 = 1 => f[p] = f[(n - 1) - (n % 2)]}

BlurMap ==
    generateBlurMap(imageData.width, imageData.height, args.minRadius,
                    args.maxRadius, args.noise)

VariableBlurInit ==
    /\ pc = "variableBoxBlur"
    /\ \E w \in 1 .. MaxWidth, h \in 1 .. MaxHeight,
          lo \in 0 .. MaxRadius, hi \in 0 .. MaxRadius :
           /\ lo <= hi
           /\ imageData \in BlurBuffers(w, h)
           /\ args \in {[minRadius |-> lo, maxRadius |-> hi, noise |-> f] :
                            f \in BlurNoise(w * h)}
    /\ tempData = None
    /\ data = None
    /\ pos = 0
    /\ output = NoImage
    /\ NoPage

VariableBlurHorizontal ==
    /\ pc = "variableBoxBlur"
    /\ tempData' = HorizontalPass(imageData, BlurMap)
    /\ pc' = "variableBoxBlurVertical"
    /\ UNCHANGED <<imageData, args, data, pos, output>>
    /\ UNCHANGED pageVars

VariableBlurVertical ==
    /\ pc = "variableBoxBlurVertical"
    /\ output' = [width |-> imageData.width, height |-> imageData.height,
                  data |-> VerticalPass(imageData, tempData, BlurMap)]
    /\ pc' = "variableBoxBlurReturned"
    /\ UNCHANGED <<imageData, args, tempData, data, pos>>
    /\ UNCHANGED pageVars

VariableBlurNext == VariableBlurHorizontal \/ VariableBlurVertical

SpecVariableBlur == VariableBlurInit /\ [][VariableBlurNext]_vars

(***************************************************************************)
(* applyNoise(ctx, width, height, noiseOpacity, noiseScale).  imageData is *)
(* the content of the canvas behind ctx.  Math.random is not computed: a   *)
(* draw is the integer noiseVal = Math.floor(baseVal + noise) of a pixel,  *)
(* anywhere in the range baseVal in [0, 255), the two sine terms in        *)
(* [-25, 25] and (Math.random() - 0.5) * 255 * noiseScale allow.  The      *)
(* opacity is carried in tenths (the default 0.1 is 1).                    *)
(***************************************************************************)
LowestDraw(noiseScale) == -25 - (255 * noiseScale) \div 2
HighestDraw(noiseScale) == 279 + (255 * noiseScale) \div 2

NoiseDraws(noiseScale) ==
    {LowestDraw(noiseScale), -1, 0, 127, 129, 255, HighestDraw(noiseScale)}

DrawFields(n, noiseScale) ==
    {[p \in 0 .. (n - 1) |->
         IF p % 2 = 0 \/ ~alternate THEN a
         ELSE LowestDraw(noiseScale) + HighestDraw(noiseScale) - a] :
        a \in NoiseDraws(noiseScale), alternate \in BOOLEAN}

\* data[i] = data[i + 1] = data[i + 2] = noiseVal; data[i + 3] = 255, stored
\* into the Uint8ClampedArray of noiseData.
NoiseData(img, draws) ==
    [i \in Samples(img) |->
        IF i % 4 < 3 THEN ToUint8Clamped(draws[i \div 4], 1) ELSE 255]

\* originalData[i + c] = Math.min(255, originalData[i + c]
\*                                     + (noiseVal - 128) * noiseOpacity)
BlendUnclamped(old, noiseVal, opacity) ==
    Min(2550, 10 * old + (noiseVal - 128) * opacity) \div 10

Blend(old, noiseVal, opacity) ==
    ToUint8Clamped(Min(2550, 10 * old + (noiseVal - 128) * opacity), 10)

\* The blend loop: noiseVal is the R sample of the noise pixel; alpha is
\* not written.
BlendNoise(img, noise, opacity) ==
    [img EXCEPT !.data =
        [i \in Samples(img) |->
            IF i % 4 < 3 THEN Blend(img.data[i], noise[(i \div 4) * 4], opacity)
            ELSE img.data[i]]]

NoiseOpacities == {-10, 0, 1, 30}
NoiseScales == {0, 12}

NoiseInit ==
    /\ pc = "applyNoise"
    /\ \E w \in 1 .. MaxWidth, h \in 1 .. MaxHeight :
           /\ imageData \in Images(w, h)
           /\ \E scale \in NoiseScales :
                  args \in {[noiseOpacity |-> o, noiseScale |-> scale,
                             draws |-> f] :
                                o \in NoiseOpacities,
                                f \in DrawFields(w * h, scale)}
    /\ tempData = None
    /\ data = None
    /\ pos = 0
    /\ output = NoImage
    /\ NoPage

\* The noise pattern is generated and put on the noise canvas.
ApplyNoiseGenerate ==
    /\ pc = "applyNoise"
    /\ data' = NoiseData(imageData, args.draws)
    /\ pc' = "applyNoiseBlend"
    /\ UNCHANGED <<imageData, args, tempData, pos, output>>
    /\ UNCHANGED pageVars

\* originalImageData is read from the canvas, blended in place and put
\* back; output is originalImageData.
ApplyNoiseBlend ==
    /\ pc = "applyNoiseBlend"
    /\ output' = BlendNoise(imageData, data, args.noiseOpacity)
    /\ imageData' = output'
    /\ pc' = "applyNoiseReturned"
    /\ UNCHANGED <<args, tempData, data, pos>>
    /\ UNCHANGED pageVars

NoiseNext == ApplyNoiseGenerate \/ ApplyNoiseBlend

SpecNoise == NoiseInit /\ [][NoiseNext]_vars

(***************************************************************************)
(* The page: the click handlers of generateBtn and downloadBtn, in the     *)
(* fixed-radius script (src/script.js) and in the variable-radius script   *)
(* (src/unnamed/part_000).  The constants at the head of a script are the  *)
(* record `config`; the sizes and radii are scaled down to the bounds.     *)
(* A canvas holds what putImageData gave it and getImageData returns it    *)
(* unchanged.                                                              *)
(***************************************************************************)
variableBoxBlurImageData(img, minRadius, maxRadius, noiseAt) ==
    LET blurMap == generateBlurMap(img.width, img.height, minRadius,
                                   maxRadius, noiseAt)
    IN  [width |-> img.width, height |-> img.height,
         data |-> VerticalPass(img, HorizontalPass(img, blurMap), blurMap)]

\* applyNoise with its default noiseOpacity = 0.1 on a canvas holding img.
applyNoise(img, draws, opacity) ==
    BlendNoise(img, NoiseData(img, draws), opacity)

\* The noise of generateBlurMap as a function of the coordinates <<x, y>>:
\* it is the same function in every call.
Coords == (0 .. (MaxFinal + 2 * MaxRadius)) \X (0 .. (MaxFinal + 2 * MaxRadius))

NoiseFunctions ==
    {[xy \in Coords |-> 3 * NoiseDen - 1],
     [xy \in Coords |-> IF (xy[1] + xy[2]) % 2 = 0 THEN 3 * NoiseDen - 1
                        ELSE 1 - 3 * NoiseDen]}

NoiseOn(noise, width, height) ==
    [p \in 0 .. (width * height - 1) |-> noise[<<p % width, p \div width>>]]

FixedConfigs ==
    {[variant |-> "fixed", finalWidth |-> n, finalHeight |-> n,
      blurRadius |-> r, contrastFactor |-> f, secondBlurRadius |-> 1,
      ditherShades |-> 30] :
        n \in 1 .. MaxFinal, r \in 0 .. MaxRadius, f \in {10, 14, 20}}

VariableConfigs ==
    {[variant |-> "variable", finalWidth |-> n, finalHeight |-> n,
      minBlurRadius |-> r[1], maxBlurRadius |-> r[2], contrastFactor |-> 11,
      secondMinBlurRadius |-> 1, secondMaxBlurRadius |-> 3,
      ditherShades |-> 80, noise |-> f] :
        n \in 1 .. MaxFinal,
        r \in {q \in (0 .. MaxRadius) \X (0 .. MaxRadius) : q[1] <= q[2]},
        f \in NoiseFunctions}

\* The first blur's (greatest) radius: the padding around the final image.
hiddenWidthOneSide(cfg) ==
    cfg.finalWidth
        + (IF cfg.variant = "fixed" THEN cfg.blurRadius ELSE cfg.maxBlurRadius)

hiddenWidth(cfg) ==
    cfg.finalWidth
        + 2 * (IF cfg.variant = "fixed" THEN cfg.blurRadius
               ELSE cfg.maxBlurRadius)

hiddenHeight(cfg) ==
    cfg.finalHeight
        + 2 * (IF cfg.variant = "fixed" THEN cfg.blurRadius
               ELSE cfg.maxBlurRadius)

\* The source offset given to drawImage.
CropOffsetZero(cfg) == 0

CropOffset(cfg) ==
    IF cfg.variant = "fixed" THEN cfg.blurRadius ELSE cfg.maxBlurRadius

\* A canvas never drawn on is transparent black.
BlankCanvas(w, h) ==
    [width |-> w, height |-> h, data |-> [i \in 0 .. (w * h * 4 - 1) |-> 0]]

\* ctx.clearRect over the whole canvas.
clearRect(canvas) == BlankCanvas(canvas.width, canvas.height)

\* Drawing src over the canvas dst of the same size (fillRect, fill,
\* drawImage: source-over compositing).  An opaque source pixel replaces
\* what was there, and so does any pixel drawn over a transparent one.
SourceOver(dst, src) ==
    [width |-> dst.width, height |-> dst.height,
     data |-> [i \in Samples(dst) |->
                  LET sa == src.data[(i \div 4) * 4 + 3]
                      da == dst.data[(i \div 4) * 4 + 3]
                      oa == 255 * sa + da * (255 - sa)
                  IN  IF sa = 255 \/ da = 0 THEN src.data[i]
                      ELSE IF i % 4 = 3 THEN ToUint8Clamped(oa, 255)
                      ELSE ToUint8Clamped(255 * sa * src.data[i]
                                              + da * (255 - sa) * dst.data[i],
                                          oa)]]

\* generateLimitedPaletteImageFull: a gradient over the whole canvas and two
\* ellipses, all opaque, placed and coloured at random.  A draw is the
\* background, the fill of the first ellipse and the pixels it covers (its
\* properties), the flat colour of the second ellipse and the pixels its
\* own random numbers select.
RasterDraws(n) ==
    {[background |-> PaletteDark, fill |-> PaletteLight, flat |-> MidGrey,
      ellipse |-> 0 .. (n \div 2),
      second |-> {p \in 0 .. (n - 1) : p % 2 = 1}],
     [background |-> MidGrey, fill |-> PaletteDark, flat |-> PaletteDark,
      ellipse |-> {}, second |-> {}],
     [background |-> PaletteLight, fill |-> PaletteDark, flat |-> PaletteDark,
      ellipse |-> {}, second |-> {}],
     [background |-> PaletteLight, fill |-> PaletteDark, flat |-> PaletteDark,
      ellipse |-> {}, second |-> {p \in 0 .. (n - 1) : p % 2 = 1}]}

\* The value of firstEllipseProps that line 248 of part_000 passes to
\* drawSecondEllipseInsideFirst: `stored` is what the variable held when the
\* handler began, `drawn` what line 245 has just assigned to it.
FirstEllipseStale(stored, drawn) == stored

FirstEllipseRead(stored, drawn) == drawn

\* The pixels of the second ellipse.  In script.js it is placed by its own
\* random numbers; in part_000 its centre and size are taken relative to the
\* first ellipse, whose properties are `props`.
SecondEllipse(variant, props, draw) ==
    IF variant = "fixed" THEN draw.second ELSE props \cap draw.second

generateLimitedPaletteImageFull(w, h, variant, props, draw) ==
    MakeImage(w, h, [i \in 0 .. (w * h - 1) |->
                        IF i \in SecondEllipse(variant, props, draw)
                        THEN draw.flat
                        ELSE IF i \in draw.ellipse THEN draw.fill
                        ELSE draw.background])

\* The random draws of one generate run: those of the rasterizer, and in
\* part_000 those of applyNoise.
GrainDraws(n) ==
    {f \in DrawFields(n, 12) : f[0] = LowestDraw(12)}

RunDraws(cfg) ==
    {d \in RasterDraws(hiddenWidth(cfg) * hiddenHeight(cfg)) :
        IF cfg.variant = "fixed" THEN d.ellipse # {} \/ d.second = {}
        ELSE d.second # {}}

\* ctxFinal.clearRect, then drawImage(tempCanvas, sx, sy, w, h, 0, 0, w, h):
\* the w x h region of src at (sx, sy), drawn over a cleared canvas.
Crop(src, sx, sy, w, h) ==
    [width |-> w, height |-> h,
     data |-> [i \in 0 .. (w * h * 4 - 1) |->
                  src.data[((((i \div 4) \div w) + sy) * src.width
                                + ((i \div 4) % w) + sx) * 4 + (i % 4)]]]

Stage(name, result, radii) ==
    [stage |-> name, result |-> result, radii |-> radii]

\* The first and the second blur of a run: the radius used at each pixel,
\* and the blurred buffer.
BlurRadii(cfg, img, second) ==
    IF cfg.variant = "fixed"
    THEN FixedRadius(img, IF second THEN cfg.secondBlurRadius
                          ELSE cfg.blurRadius)
    ELSE generateBlurMap(img.width, img.height,
                         IF second THEN cfg.secondMinBlurRadius
                         ELSE cfg.minBlurRadius,
                         IF second THEN cfg.secondMaxBlurRadius
                         ELSE cfg.maxBlurRadius,
                         NoiseOn(cfg.noise, img.width, img.height))

BlurStage(cfg, img, second) ==
    IF cfg.variant = "fixed"
    THEN boxBlurImageData(img, IF second THEN cfg.secondBlurRadius
                               ELSE cfg.blurRadius)
    ELSE variableBoxBlurImageData(img,
                                  IF second THEN cfg.secondMinBlurRadius
                                  ELSE cfg.minBlurRadius,
                                  IF second THEN cfg.secondMaxBlurRadius
                                  ELSE cfg.maxBlurRadius,
                                  NoiseOn(cfg.noise, img.width, img.height))

\* The stages of the generate handler in the order of its statements.
StageOrderSwapped(variant) ==
    <<"rasterize", "blur", "crop", "dither", "contrast", "reblur">>
        \o (IF variant = "fixed" THEN <<>> ELSE <<"noise">>)

StageOrder(variant) ==
    <<"rasterize", "blur", "crop", "contrast", "dither", "reblur">>
        \o (IF variant = "fixed" THEN <<>> ELSE <<"noise">>)

\* Where the handler stands after the n-th of its stages: before the next
\* one, or returned.
After(n) ==
    IF n < Len(StageOrder(config.variant))
    THEN StageOrder(config.variant)[n + 1]
    ELSE "idle"

\* An event is dispatched to its handler only when no handler is running:
\* both handlers are synchronous functions without await, timer or callback.
DispatchAnytime == TRUE

Dispatch == pc = "idle"

RunInit ==
    /\ pc = "idle"
    /\ imageData = NoImage
    /\ args = None
    /\ tempData = None
    /\ data = None
    /\ pos = 0
    /\ output = NoImage
    /\ config \in FixedConfigs \cup VariableConfigs
    /\ hiddenCanvas = BlankCanvas(hiddenWidth(config), hiddenHeight(config))
    /\ tempCanvas = BlankCanvas(hiddenWidth(config), hiddenHeight(config))
    /\ finalCanvas = BlankCanvas(config.finalWidth, config.finalHeight)
    /\ firstEllipseProps = {}
    /\ stages = <<>>
    /\ downloaded = NoImage
    /\ randoms = None

\* A click on generateBtn: the handler starts, and
\* 1) generateLimitedPaletteImageFull draws on the hidden canvas.
Generate ==
    /\ Dispatch
    /\ \E draw \in RunDraws(config) :
           /\ randoms' = [raster |-> draw, grain |-> None]
           /\ firstEllipseProps' =
                  IF config.variant = "variable" THEN draw.ellipse
                  ELSE firstEllipseProps
           /\ hiddenCanvas' =
                  SourceOver(clearRect(hiddenCanvas),
                             generateLimitedPaletteImageFull(
                                 hiddenWidth(config), hiddenHeight(config),
                                 config.variant,
                                 FirstEllipseRead(firstEllipseProps,
                                                  draw.ellipse),
                                 draw))
    /\ stages' = <<Stage("rasterize", hiddenCanvas', None)>>
    /\ pc' = After(1)
    /\ UNCHANGED <<config, tempCanvas, finalCanvas, downloaded>>
    /\ UNCHANGED <<imageData, args, tempData, data, pos, output>>

\* 2) getImageData of the hidden canvas, the first blur, putImageData to
\* the temporary canvas.
GenerateBlur ==
    /\ pc = "blur"
    /\ tempCanvas' = BlurStage(config, hiddenCanvas, FALSE)
    /\ stages' = Append(stages, Stage("blur", tempCanvas',
                                      BlurRadii(config, hiddenCanvas, FALSE)))
    /\ pc' = After(Len(stages'))
    /\ UNCHANGED <<config, hiddenCanvas, finalCanvas, firstEllipseProps,
                   downloaded, randoms>>
    /\ UNCHANGED <<imageData, args, tempData, data, pos, output>>

\* 3) clearRect of the final canvas and drawImage of the central region of
\* the temporary canvas.
GenerateCrop ==
    /\ pc = "crop"
    /\ finalCanvas' =
           SourceOver(clearRect(finalCanvas),
                      Crop(tempCanvas, CropOffset(config), CropOffset(config),
                           config.finalWidth, config.finalHeight))
    /\ stages' = Append(stages, Stage("crop", finalCanvas', None))
    /\ pc' = After(Len(stages'))
    /\ UNCHANGED <<config, hiddenCanvas, tempCanvas, firstEllipseProps,
                   downloaded, randoms>>
    /\ UNCHANGED <<imageData, args, tempData, data, pos, output>>

\* 4) getImageData of the final canvas, enhanceContrast, putImageData.
GenerateContrast ==
    /\ pc = "contrast"
    /\ finalCanvas' = enhanceContrast(finalCanvas, config.contrastFactor)
    /\ stages' = Append(stages, Stage("contrast", finalCanvas', None))
    /\ pc' = After(Len(stages'))
    /\ UNCHANGED <<config, hiddenCanvas, tempCanvas, firstEllipseProps,
                   downloaded, randoms>>
    /\ UNCHANGED <<imageData, args, tempData, data, pos, output>>

\* 5) getImageData, floydSteinbergDitherImageData, putImageData.
GenerateDither ==
    /\ pc = "dither"
    /\ finalCanvas' =
           floydSteinbergDitherImageData(finalCanvas, config.ditherShades)
    /\ stages' = Append(stages, Stage("dither", finalCanvas', None))
    /\ pc' = After(Len(stages'))
    /\ UNCHANGED <<config, hiddenCanvas, tempCanvas, firstEllipseProps,
                   downloaded, randoms>>
    /\ UNCHANGED <<imageData, args, tempData, data, pos, output>>

\* 6) getImageData, the second blur, putImageData.
GenerateReblur ==
    /\ pc = "reblur"
    /\ finalCanvas' = BlurStage(config, finalCanvas, TRUE)
    /\ stages' = Append(stages, Stage("reblur", finalCanvas',
                                      BlurRadii(config, finalCanvas, TRUE)))
    /\ pc' = After(Len(stages'))
    /\ UNCHANGED <<config, hiddenCanvas, tempCanvas, firstEllipseProps,
                   downloaded, randoms>>
    /\ UNCHANGED <<imageData, args, tempData, data, pos, output>>

\* 7) part_000 only: applyNoise on the final canvas, noiseOpacity = 0.1.
GenerateNoise ==
    /\ pc = "noise"
    /\ \E grain \in GrainDraws(config.finalWidth * config.finalHeight) :
           /\ randoms' = [randoms EXCEPT !.grain = grain]
           /\ finalCanvas' = applyNoise(finalCanvas, grain, 1)
    /\ stages' = Append(stages, Stage("noise", finalCanvas', None))
    /\ pc' = After(Len(stages'))
    /\ UNCHANGED <<config, hiddenCanvas, tempCanvas, firstEllipseProps,
                   downloaded>>
    /\ UNCHANGED <<imageData, args, tempData, data, pos, output>>

\* A click on downloadBtn: finalCanvas.toDataURL("image/png").
Download ==
    /\ Dispatch
    /\ downloaded' = finalCanvas
    /\ UNCHANGED <<config, hiddenCanvas, tempCanvas, finalCanvas,
                   firstEllipseProps, stages, randoms, pc>>
    /\ UNCHANGED <<imageData, args, tempData, data, pos, output>>

RunNext ==
    \/ Generate
    \/ GenerateBlur
    \/ GenerateCrop
    \/ GenerateContrast
    \/ GenerateDither
    \/ GenerateReblur
    \/ GenerateNoise
    \/ Download

SpecRun == RunInit /\ [][RunNext]_vars

(***************************************************************************)
(* Claims about boxBlurImageData.                                          *)
(***************************************************************************)
Uniform(img) ==
    \A i \in Samples(img) : img.data[i] = img.data[i % 4]

TwoColour(img) == ~Uniform(img)

\* C1: blurring a buffer whose pixels all hold one RGBA colour, with any
\* radius, returns a buffer of the same width and height in which every
\* pixel, borders and corners included, holds that colour.
C1_UniformBlurIsIdentity ==
    (pc = "boxBlurReturned" /\ Uniform(imageData)) => output = imageData

C1_Witness ==
    /\ pc = "boxBlurReturned"
    /\ Uniform(imageData)
    /\ imageData.width = MaxWidth
    /\ imageData.height > 1
    /\ args.radius = MaxRadius
    /\ imageData.data[3] = 128
    /\ output = imageData

\* Row y (column x) of channel c of a width x height sample array.
Row(samples, width, y, c) ==
    [nx \in 0 .. (width - 1) |-> samples[(y * width + nx) * 4 + c]]

Column(samples, width, height, x, c) ==
    [ny \in 0 .. (height - 1) |-> samples[(ny * width + x) * 4 + c]]

\* The samples lo .. hi of a line, added up front to back.
RECURSIVE RangeSum(_, _, _)
RangeSum(samples, lo, hi) ==
    IF lo > hi THEN 0 ELSE samples[hi] + RangeSum(samples, lo, hi - 1)

\* The average of the in-bounds part [line-r, line+r] /\ [0, len) of a window.
TruncatedAverage(samples, line, len, r) ==
    LET lo == Max(0, line - r)
        hi == Min(len - 1, line + r)
    IN  ToUint8Clamped(RangeSum(samples, lo, hi), hi - lo + 1)

\* The average of a window whose out-of-bounds samples count as zeros.
ZeroPaddedAverage(samples, line, len, r) ==
    LET lo == Max(0, line - r)
        hi == Min(len - 1, line + r)
    IN  ToUint8Clamped(RangeSum(samples, lo, hi), 2 * r + 1)

\* C2: in each pass the value written at (x, y) for a channel is the sum of
\* the samples at offsets -r .. r that lie inside the buffer divided by the
\* number of those samples (converted by the Uint8ClampedArray it is stored
\* in), not by 2r+1; so a corner pixel of a two-colour buffer holds the
\* average of the in-bounds samples of its window.
C2_TruncatedWindowAverage ==
    /\ pc \in {"boxBlurVertical", "boxBlurReturned"} =>
          \A i \in Samples(imageData) :
              LET c == i % 4
                  x == (i \div 4) % imageData.width
                  y == (i \div 4) \div imageData.width
                  row == Row(imageData.data, imageData.width, y, c)
              IN  tempData[i] =
                      TruncatedAverage(row, x, imageData.width, args.radius)
    /\ pc = "boxBlurReturned" =>
          \A i \in Samples(imageData) :
              LET c == i % 4
                  x == (i \div 4) % imageData.width
                  y == (i \div 4) \div imageData.width
                  col == Column(tempData, imageData.width, imageData.height, x, c)
              IN  output.data[i] =
                      TruncatedAverage(col, y, imageData.height, args.radius)

\* A two-colour buffer whose corner pixel (0, 0) gets, in both passes, a
\* value other than the zero-padded average of its window.
C2_Witness ==
    /\ pc = "boxBlurReturned"
    /\ TwoColour(imageData)
    /\ args.radius > 0
    /\ LET atH == Row(imageData.data, imageData.width, 0, 0)
           atV == Column(tempData, imageData.width, imageData.height, 0, 0)
       IN  /\ tempData[0] # ZeroPaddedAverage(atH, 0, imageData.width, args.radius)
           /\ output.data[0] # ZeroPaddedAverage(atV, 0, imageData.height, args.radius)
           /\ tempData[0] # imageData.data[0]
           /\ output.data[0] # tempData[0]

(***************************************************************************)
(* Claims about floydSteinbergDitherImageData.                             *)
(***************************************************************************)
\* Sample index of channel c of the pixel processed by iteration n.
SampleOf(n) == (n \div 3) * 4 + (n % 3)

\* The RGB samples quantized by the iterations done so far.
Quantized == {SampleOf(n) : n \in 0 .. (pos - 1)}

\* C3: a configuration error (here shades < 2) is rejected at entry, before
\* any processing, so that no buffer is produced: dithering with shades = 1
\* returns no ImageData.
C3_ConfigErrorRejected ==
    args.shades < 2 => output = NoImage

\* C4: for shades >= 2 every RGB value stored by a quantization is k * step
\* with step = 4000 / (shades - 1) and an integer k in 0 .. shades-1, and
\* after the final clamp every sample of the output is in 0 .. 255.
C4_QuantizedOnLadder ==
    args.shades >= 2 =>
        /\ pc = "ditherLoop" =>
              \A j \in Quantized :
                  /\ ~data[j].nan
                  /\ data[j].v % StepScaled = 0
                  /\ (data[j].v \div StepScaled) \in 0 .. (args.shades - 1)
        /\ pc = "ditherReturned" =>
              \A i \in Samples(output) : output.data[i] \in 0 .. 255

\* A run with shades >= 2 that quantized a value that was below 0 (error
\* received from the left made it negative), one that stored a level above
\* 255, and whose output was clamped to 255 there.
C4_Witness ==
    /\ pc = "ditherReturned"
    /\ args.shades = 30
    /\ \E j \in Quantized :
           /\ data[j].v = 2 * StepScaled
           /\ output.data[j] = 255
           /\ imageData.data[j] < 255
    /\ \E j \in Quantized :
           /\ data[j].v = 0
           /\ imageData.data[j] > 0
           /\ j % 4 = 0 /\ j >= 4
           /\ data[j - 4].v > imageData.data[j - 4] * Scale(args.shades)

\* C5: pixels are visited in row-major order and the error of a pixel goes
\* only to pixels later in that order: an iteration changes no RGB sample
\* that an earlier iteration quantized, and no sample of an earlier pixel.
C5_NoWriteToProcessed ==
    [][pc = "ditherLoop" =>
          /\ pos' \in {pos, pos + 1}
          /\ \A j \in Samples(imageData) :
                 (j \in Quantized \/ (j \div 4) < (pos \div 3)) =>
                     data'[j] = data[j]]_vars

\* The loop is over, the last pixel of a buffer of two rows or more holds a
\* quantized value that differs from the quantization of its input (it
\* received error), and the first pixel still holds what it was given.
C5_Witness ==
    /\ pc = "ditherLoop"
    /\ pos = 3 * imageData.width * imageData.height
    /\ imageData.width >= 2 /\ imageData.height >= 2
    /\ args.shades >= 2
    /\ LET last == (imageData.width * imageData.height - 1) * 4
       IN  data[last] # Quantize(Num(imageData.data[last] * Scale(args.shades)),
                                 args.shades)
    /\ data[0] = Quantize(Num(imageData.data[0] * Scale(args.shades)),
                          args.shades)

\* The weights (in sixteenths) of the neighbours of (x, y) outside the buffer.
DroppedWeight(x, y, width, height) ==
    (IF x + 1 < width THEN 0 ELSE 7)
        + (IF x - 1 >= 0 /\ y + 1 < height THEN 0 ELSE 3)
        + (IF y + 1 < height THEN 0 ELSE 5)
        + (IF x + 1 < width /\ y + 1 < height THEN 0 ELSE 1)

\* The change of the sum of channel c over the working copy in this step.
RECURSIVE ChannelChange(_, _, _, _)
ChannelChange(before, after, c, p) ==
    IF p < 0 THEN 0
    ELSE (after[p * 4 + c].v - before[p * 4 + c].v)
             + ChannelChange(before, after, c, p - 1)

\* C6: when the pixel processed has its four neighbours (x+1,y), (x-1,y+1),
\* (x,y+1), (x+1,y+1) in the buffer, the sum of the channel over the working
\* copy is unchanged; otherwise it changes by exactly the shares of the
\* error that fell outside, which no other neighbour receives.
C6_ErrorConserved ==
    [][(pc = "ditherLoop" /\ pos' = pos + 1 /\ args.shades >= 2) =>
          LET x == (pos \div 3) % imageData.width
              y == (pos \div 3) \div imageData.width
              c == pos % 3
              error == data[SampleOf(pos)].v - data'[SampleOf(pos)].v
              dropped == DroppedWeight(x, y, imageData.width, imageData.height)
              change == ChannelChange(data, data', c,
                                      imageData.width * imageData.height - 1)
          IN  /\ 16 * change = -(error * dropped)
              /\ (x + 1 < imageData.width /\ x - 1 >= 0
                      /\ y + 1 < imageData.height) => change = 0]_vars

\* Pixel (1, 0) of a 3x2 buffer, which has its four neighbours, has just
\* been quantized in channel 0 with an error other than 0: pixel (2, 1),
\* which so far received a share from no other pixel, has changed.
C6_Witness ==
    /\ pc = "ditherLoop"
    /\ imageData.width = 3 /\ imageData.height = 2
    /\ pos = 4
    /\ args.shades >= 2
    /\ data[20].v # imageData.data[20] * Scale(args.shades)

(***************************************************************************)
(* Claims about enhanceContrast.                                           *)
(***************************************************************************)
\* v is factor * (old - 128) + 128 clamped to [0, 255], as an integer sample:
\* 0 or 255 where the value is outside the range, else an integer nearest to it.
IsClampedContrast(v, old, tenths) ==
    LET num == tenths * (old - 128) + 1280
    IN  IF num <= 0 THEN v = 0
        ELSE IF num >= 2550 THEN v = 255
        ELSE 10 * v - num \in -5 .. 5

\* C7: enhanceContrast sets R, G and B of every pixel to
\* factor * (old - 128) + 128 clamped to [0, 255] (as the nearest integer
\* sample) and leaves every alpha sample unchanged; with factor 1.0 the
\* buffer is returned unchanged, and for every factor every stored value is
\* in 0 .. 255.
C7_ContrastTransform ==
    [][pc = "enhanceContrast" =>
          /\ \A i \in Samples(imageData) :
                 /\ imageData'.data[i] \in 0 .. 255
                 /\ i % 4 < 3 =>
                        IsClampedContrast(imageData'.data[i], imageData.data[i],
                                          args.factor)
                 /\ i % 4 = 3 => imageData'.data[i] = imageData.data[i]
          /\ args.factor = 10 => imageData' = imageData
          /\ output' = imageData'
          /\ imageData'.width = imageData.width
          /\ imageData'.height = imageData.height]_vars

\* Factor 100 has pushed channels to 0 and to 255 in a buffer whose alpha is
\* neither, and left mid grey where it was.
C7_Witness ==
    /\ pc = "enhanceContrastReturned"
    /\ args.factor = 1000
    /\ \E i, j, k \in Samples(output) :
           /\ i % 4 = 0 /\ output.data[i] = 255
           /\ j % 4 = 2 /\ output.data[j] = 0
           /\ k % 4 = 1 /\ output.data[k] = 128
    /\ output.data[3] = 128

(***************************************************************************)
(* Claims about generateBlurMap.                                           *)
(***************************************************************************)
\* C8, as claimed: for all integers minRadius <= maxRadius every entry r of
\* the map satisfies minRadius <= r < maxRadius.
C8_RadiusBelowMax ==
    pc = "generateBlurMapReturned" =>
        \A p \in DOMAIN output :
            args.minRadius <= output[p] /\ output[p] < args.maxRadius

\* C8, amended: the map has width * height entries, each an integer r with
\* minRadius <= r <= maxRadius; r < maxRadius when minRadius < maxRadius,
\* and r = maxRadius when minRadius = maxRadius.
C8_RadiusInRange ==
    pc = "generateBlurMapReturned" =>
        /\ DOMAIN output = 0 .. (args.width * args.height - 1)
        /\ \A p \in DOMAIN output :
               /\ output[p] \in Int
               /\ args.minRadius <= output[p]
               /\ output[p] <= args.maxRadius
               /\ args.minRadius < args.maxRadius => output[p] < args.maxRadius
               /\ args.minRadius = args.maxRadius => output[p] = args.maxRadius

\* A map over minRadius < maxRadius that holds both minRadius and
\* maxRadius - 1, from the least and the greatest noise.
C8_Witness ==
    /\ pc = "generateBlurMapReturned"
    /\ args.minRadius = 0
    /\ args.maxRadius = MaxRadius
    /\ \E p, q \in DOMAIN output :
           /\ output[p] = args.minRadius
           /\ output[q] = args.maxRadius - 1
           /\ args.noise[q] = 3 * NoiseDen - 1

(***************************************************************************)
(* Claims about applyNoise.                                                *)
(***************************************************************************)
\* C9: after applyNoise, for every opacity, scale and draw, every R, G and B
\* sample of the buffer is an integer in 0 .. 255, also where
\* old + (noiseValue - 128) * opacity is negative (the sample is then 0),
\* and every alpha sample is unchanged.
C9_NoiseWithinRange ==
    [][pc = "applyNoiseBlend" =>
          \A i \in Samples(imageData) :
              /\ imageData'.data[i] \in 0 .. 255
              /\ (i % 4 < 3 /\ 10 * imageData.data[i]
                      + (data[(i \div 4) * 4] - 128) * args.noiseOpacity < 0)
                     => imageData'.data[i] = 0
              /\ i % 4 = 3 => imageData'.data[i] = imageData.data[i]]_vars

\* Opacity 3.0 with draws below 0 and above 255 in one buffer: a red sample
\* (none is below 20 before the call) was brought to 0 and another to 255,
\* and alpha is still 128.
C9_Witness ==
    /\ pc = "applyNoiseReturned"
    /\ args.noiseOpacity = 30
    /\ \E i, j \in Samples(imageData) :
           /\ i % 4 = 0 /\ imageData.data[i] = 0 /\ args.draws[i \div 4] < 0
           /\ j % 4 = 0 /\ imageData.data[j] = 255 /\ args.draws[j \div 4] > 255
    /\ imageData.data[3] = 128

\* The padding a run is configured with.
Pad ==
    IF config.variant = "fixed" THEN config.blurRadius
    ELSE config.maxBlurRadius

\* The pixels of the padded buffer the crop covers, as <<x, y>>.
CropRegion ==
    (Pad .. (Pad + config.finalWidth - 1))
        \X (Pad .. (Pad + config.finalHeight - 1))

\* C10: after a generate run, the cropped buffer is finalWidth x finalHeight
\* and holds, sample by sample, the region of the first blur's output at
\* offset (pad, pad), with pad = blurRadius in the fixed variant and
\* pad = maxBlurRadius in the variable one; and for every pixel (x, y) of
\* that region, with r the radius the first blur used at it, the window
\* x-r .. x+r lies inside the row and the window y-r .. y+r inside the
\* column, and so does the horizontal window of every row sample the
\* vertical window reads.
C10_CropKeepsFullWindows ==
    Len(stages) >= 3 =>
        LET padded == stages[2].result
            radii == stages[2].radii
            cropped == stages[3].result
        IN  /\ stages[2].stage = "blur" /\ stages[3].stage = "crop"
            /\ cropped.width = config.finalWidth
            /\ cropped.height = config.finalHeight
            /\ \A xy \in CropRegion :
                   LET x == xy[1]
                       y == xy[2]
                       r == radii[y * padded.width + x]
                   IN  /\ \A c \in 0 .. 3 :
                              cropped.data[((y - Pad) * cropped.width
                                               + (x - Pad)) * 4 + c]
                                  = padded.data[(y * padded.width + x) * 4 + c]
                       /\ x - r >= 0 /\ x + r <= padded.width - 1
                       /\ y - r >= 0 /\ y + r <= padded.height - 1
                       /\ WindowCount(x, padded.width, -r, r) = 2 * r + 1
                       /\ WindowCount(y, padded.height, -r, r) = 2 * r + 1
                       /\ \A ny \in (y - r) .. (y + r) :
                              LET q == radii[ny * padded.width + x]
                              IN  x - q >= 0 /\ x + q <= padded.width - 1

\* A variable-radius run whose padding is the greatest radius, whose crop is
\* more than one pixel and not of one colour, and in which a cropped pixel
\* was blurred with a window reaching the first and the last sample of its
\* row.
C10_Witness ==
    /\ Len(stages) >= 3
    /\ config.variant = "variable"
    /\ Pad = MaxRadius
    /\ config.finalWidth = MaxFinal
    /\ \E i, j \in Samples(stages[3].result) :
           /\ i % 4 = j % 4
           /\ stages[3].result.data[i] # stages[3].result.data[j]
    /\ \E xy \in CropRegion :
           LET r == stages[2].radii[xy[2] * stages[2].result.width + xy[1]]
           IN  r = Pad /\ xy[1] - r = 0
    /\ \E xy \in CropRegion :
           LET r == stages[2].radii[xy[2] * stages[2].result.width + xy[1]]
           IN  r = Pad /\ xy[1] + r = stages[2].result.width - 1

(***************************************************************************)
(* Claims about the generate and download handlers.                        *)
(***************************************************************************)
ClaimedOrder ==
    <<"rasterize", "blur", "crop", "contrast", "dither", "reblur", "noise">>

StageCount == IF config.variant = "fixed" THEN 6 ELSE 7

\* What the n-th stage (n >= 2) makes of the buffer `previous`.
StageOutput(n, previous, grain) ==
    CASE n = 2 -> BlurStage(config, previous, FALSE)
      [] n = 3 -> Crop(previous, Pad, Pad, config.finalWidth,
                       config.finalHeight)
      [] n = 4 -> enhanceContrast(previous, config.contrastFactor)
      [] n = 5 -> floydSteinbergDitherImageData(previous, config.ditherShades)
      [] n = 6 -> BlurStage(config, previous, TRUE)
      [] n = 7 -> applyNoise(previous, grain, 1)

\* C11: every step that records a stage records the next stage of the order
\* rasterize, blur, crop, contrast, dither, reblur, noise (noise in the
\* variable variant only, and last): the first stage is recorded only when
\* no run is under way, the n-th only right after the (n-1)-th, its result
\* is what the stage makes of the result the (n-1)-th stage recorded, and
\* the handler returns exactly when the last stage has been recorded.
C11_StagesInOrder ==
    [][stages' # stages =>
          LET n == Len(stages')
          IN  /\ n >= 1 /\ n <= StageCount
              /\ stages'[n].stage = ClaimedOrder[n]
              /\ IF n = 1
                 THEN stages = <<>> \/ Len(stages) = StageCount
                 ELSE /\ stages = SubSeq(stages', 1, n - 1)
                      /\ stages'[n].result
                             = StageOutput(n, stages[n - 1].result,
                                           randoms'.grain)
              /\ (pc' = "idle") <=> (n = StageCount)]_vars

\* A finished run of the variable variant on a two-colour raster in which
\* every stage after the crop changed the buffer it was given.
C11_Witness ==
    /\ pc = "idle"
    /\ config.variant = "variable"
    /\ Len(stages) = 7
    /\ config.finalWidth = MaxFinal
    /\ config.maxBlurRadius > 0
    /\ ~Uniform(stages[1].result)
    /\ \A n \in 4 .. 7 : stages[n].result # stages[n - 1].result
    /\ stages[3].result # stages[2].result

\* The final buffer of a run computed from the configuration and the run's
\* random draws alone, on canvases nothing was drawn on before.
RasterOf(draw) ==
    generateLimitedPaletteImageFull(hiddenWidth(config), hiddenHeight(config),
                                    config.variant, draw.ellipse, draw)

DitheredOf(draw) ==
    floydSteinbergDitherImageData(
        enhanceContrast(
            Crop(BlurStage(config, RasterOf(draw), FALSE), Pad, Pad,
                 config.finalWidth, config.finalHeight),
            config.contrastFactor),
        config.ditherShades)

RunOutput(draw, grain) ==
    IF config.variant = "fixed" THEN BlurStage(config, DitheredOf(draw), TRUE)
    ELSE applyNoise(BlurStage(config, DitheredOf(draw), TRUE), grain, 1)

\* C12: whenever a generate run has finished, the final canvas holds the
\* buffer that the configuration and the random draws of that run determine
\* on their own, whatever the runs before it left in the hidden, temporary
\* and final canvases and in firstEllipseProps; so two runs that make the
\* same draws end with the same final buffer.
C12_RunDependsOnDrawsOnly ==
    (pc = "idle" /\ stages # <<>>) =>
        finalCanvas = RunOutput(randoms.raster, randoms.grain)

\* A finished run of the variable variant that drew no first ellipse, after
\* an earlier run that drew one and whose different final buffer was
\* downloaded.
C12_Witness ==
    /\ pc = "idle"
    /\ config.variant = "variable"
    /\ Len(stages) = 7
    /\ randoms.raster.ellipse = {}
    /\ randoms.raster.second # {}
    /\ downloaded # NoImage
    /\ downloaded # finalCanvas
    /\ downloaded # BlankCanvas(config.finalWidth, config.finalHeight)
    /\ config.finalWidth = MaxFinal

\* The buffer of the given size holding one colour at every pixel.
Solid(w, h, colour) == MakeImage(w, h, [i \in 0 .. (w * h - 1) |-> colour])

Opaque(img) == \A p \in Pixels(img) : img.data[p * 4 + 3] = 255

ColourOf(img) == <<img.data[0], img.data[1], img.data[2], img.data[3]>>

\* C13: in the fixed variant, when the padded raster is opaque and of one
\* colour, the buffer after blur (radius r), crop (r on each side) and
\* contrast is finalWidth x finalHeight and holds that colour at every
\* pixel if contrastFactor is 1.0, and holds (128, 128, 128) at every
\* pixel if the colour is (128, 128, 128) and contrastFactor is 2.0.
C13_SolidColourPreserved ==
    (/\ Len(stages) >= 4
     /\ config.variant = "fixed"
     /\ Uniform(stages[1].result)
     /\ Opaque(stages[1].result)) =>
        /\ config.contrastFactor = 10 =>
               stages[4].result
                   = Solid(config.finalWidth, config.finalHeight,
                           ColourOf(stages[1].result))
        /\ (config.contrastFactor = 20
                /\ ColourOf(stages[1].result) = <<128, 128, 128, 255>>) =>
               stages[4].result
                   = Solid(config.finalWidth, config.finalHeight,
                           <<128, 128, 128, 255>>)

\* The mid-grey raster through blur, crop and contrast 2.0 with the
\* greatest padding and final size.
C13_Witness ==
    /\ Len(stages) >= 4
    /\ config.variant = "fixed"
    /\ config.contrastFactor = 20
    /\ config.blurRadius = MaxRadius
    /\ config.finalWidth = MaxFinal
    /\ stages[1].result
           = Solid(hiddenWidth(config), hiddenHeight(config),
                   <<128, 128, 128, 255>>)
    /\ stages[4].stage = "contrast"

\* The same with a raster of a palette colour and contrast 1.0.
C13_WitnessIdentity ==
    /\ Len(stages) >= 4
    /\ config.variant = "fixed"
    /\ config.contrastFactor = 10
    /\ config.blurRadius = MaxRadius
    /\ config.finalWidth = MaxFinal
    /\ stages[1].result
           = Solid(hiddenWidth(config), hiddenHeight(config), PaletteLight)

(***************************************************************************)
(* Claims about variableBoxBlurImageData.                                  *)
(***************************************************************************)
\* C14: in variableBoxBlurImageData the sample written at (x, y) by the
\* horizontal pass is the average of the in-bounds part of the row window
\* of half-width BlurMap[y * width + x], and the sample written at (x, y)
\* by the vertical pass is the average of the in-bounds part of the column
\* window of that same half-width BlurMap[y * width + x], whatever the map
\* holds at the pixels (x, y + dy) the window covers.
C14_VerticalRadiusFromOutputPixel ==
    /\ pc \in {"variableBoxBlurVertical", "variableBoxBlurReturned"} =>
          \A i \in Samples(imageData) :
              LET c == i % 4
                  x == (i \div 4) % imageData.width
                  y == (i \div 4) \div imageData.width
                  row == Row(imageData.data, imageData.width, y, c)
              IN  tempData[i] =
                      TruncatedAverage(row, x, imageData.width,
                                       BlurMap[y * imageData.width + x])
    /\ pc = "variableBoxBlurReturned" =>
          \A i \in Samples(imageData) :
              LET c == i % 4
                  x == (i \div 4) % imageData.width
                  y == (i \div 4) \div imageData.width
                  col == Column(tempData, imageData.width, imageData.height,
                                x, c)
              IN  output.data[i] =
                      TruncatedAverage(col, y, imageData.height,
                                       BlurMap[y * imageData.width + x])

\* A returned blur with a pixel (x, y) whose map entry differs from the one
\* of the pixel above it, and whose output sample differs from the average
\* the entry of the pixel above would have given.
C14_Witness ==
    /\ pc = "variableBoxBlurReturned"
    /\ \E i \in Samples(imageData) :
           LET c == i % 4
               x == (i \div 4) % imageData.width
               y == (i \div 4) \div imageData.width
               col == Column(tempData, imageData.width, imageData.height, x, c)
           IN  /\ y > 0
               /\ BlurMap[y * imageData.width + x]
                      # BlurMap[(y - 1) * imageData.width + x]
               /\ output.data[i]
                      # TruncatedAverage(col, y, imageData.height,
                                         BlurMap[(y - 1) * imageData.width + x])

\* C15: for every pixel (x, y) of a buffer with width >= 1 and height >= 1,
\* the number of samples a pass divides by is at least 1, in the horizontal
\* and in the vertical pass, with the half-width the variable blur reads
\* from its map at (x, y) and with every fixed half-width 0 .. maxRadius
\* boxBlurImageData may be given.
C15_CountAtLeastOne ==
    \A p \in Pixels(imageData) :
        LET x == p % imageData.width
            y == p \div imageData.width
        IN  /\ BlurMap[p] >= 0
            /\ WindowCount(x, imageData.width, -BlurMap[p], BlurMap[p]) >= 1
            /\ WindowCount(y, imageData.height, -BlurMap[p], BlurMap[p]) >= 1
            /\ \A radius \in 0 .. args.maxRadius :
                   /\ WindowCount(x, imageData.width, -radius, radius) >= 1
                   /\ WindowCount(y, imageData.height, -radius, radius) >= 1

\* A returned blur of a one-pixel-wide buffer with the greatest radius at
\* pixel (0, 0): the row window holds the pixel itself and nothing else.
C15_Witness ==
    /\ pc = "variableBoxBlurReturned"
    /\ imageData.width = 1
    /\ imageData.height = MaxHeight
    /\ BlurMap[0] = MaxRadius
    /\ WindowCount(0, imageData.width, -BlurMap[0], BlurMap[0]) = 1
    /\ tempData[0] = imageData.data[0]

\* C16: while the generate handler is running, the only step taken is its
\* next stage: no download and no new run starts between two stages.  So
\* whenever a download changes the exported image, no run is under way, and
\* the image is the final canvas as it was before the first run or as the
\* last stage of the latest run left it.
C16_RunToCompletion ==
    [][/\ pc # "idle" =>
              /\ Len(stages') = Len(stages) + 1
              /\ downloaded' = downloaded
       /\ downloaded' # downloaded =>
              /\ pc = "idle" /\ pc' = "idle"
              /\ downloaded' = finalCanvas
              /\ IF stages = <<>>
                 THEN finalCanvas = BlankCanvas(config.finalWidth,
                                                config.finalHeight)
                 ELSE /\ Len(stages) = StageCount
                      /\ finalCanvas = stages[StageCount].result]_vars

\* A run that has cropped and contrast-enhanced but not yet dithered, while
\* the exported image is still the final buffer of an earlier run and not
\* what the final canvas holds now.
C16_Witness ==
    /\ pc = "dither"
    /\ Len(stages) = 4
    /\ downloaded # NoImage
    /\ downloaded # BlankCanvas(config.finalWidth, config.finalHeight)
    /\ downloaded # finalCanvas
    /\ finalCanvas = stages[4].result

\* C17: when the raster a run starts from has alpha 255 at every pixel, the
\* buffer every later stage of the run records (first blur, crop, contrast,
\* dither, second blur, noise) has alpha 255 at every pixel, and so have the
\* temporary and the final canvas once the run has written them.
C17_AlphaStaysOpaque ==
    (stages # <<>> /\ Opaque(stages[1].result)) =>
        /\ \A n \in 1 .. Len(stages) : Opaque(stages[n].result)
        /\ Len(stages) >= 2 => Opaque(tempCanvas)
        /\ Len(stages) >= 3 => Opaque(finalCanvas)

\* A finished run with noise on an opaque two-colour raster, blurred with a
\* radius above 0 at some pixel, whose stages changed the colour channels.
C17_Witness ==
    /\ pc = "idle"
    /\ Len(stages) = 7
    /\ Opaque(stages[1].result)
    /\ ~Uniform(stages[1].result)
    /\ \E p \in Pixels(stages[2].result) : stages[2].radii[p] > 0
    /\ stages[2].result # stages[1].result
    /\ stages[5].result # stages[4].result
    /\ stages[7].result # stages[6].result
    /\ Opaque(stages[7].result)

\* C18: variableBoxBlurImageData(buffer, r, r) returns the buffer that
\* boxBlurImageData(buffer, r) returns, for every buffer, every r >= 0 and
\* whatever the noise: every entry of the blur map is then r, and the
\* intermediate buffers of the two functions agree as well.
C18_EqualRadiiIsBoxBlur ==
    args.minRadius = args.maxRadius =>
        /\ \A p \in Pixels(imageData) : BlurMap[p] = args.minRadius
        /\ pc \in {"variableBoxBlurVertical", "variableBoxBlurReturned"} =>
               tempData = HorizontalPass(imageData,
                                         FixedRadius(imageData, args.minRadius))
        /\ pc = "variableBoxBlurReturned" =>
               output = boxBlurImageData(imageData, args.minRadius)

\* A returned variable blur with minRadius = maxRadius above 0 on a
\* two-colour buffer, with noise that differs between pixels, that changed
\* the buffer.
C18_Witness ==
    /\ pc = "variableBoxBlurReturned"
    /\ args.minRadius = args.maxRadius
    /\ args.minRadius = MaxRadius
    /\ TwoColour(imageData)
    /\ imageData.width > 1 /\ imageData.height > 1
    /\ args.noise[0] # args.noise[1]
    /\ output.data # imageData.data

====
